---- MODULE Spec2Model ----
(***************************************************************************)
(* Verification model of the HydroTools batch scripts.  Every script is a  *)
(* standalone program over a file listing; each gets its own variables,    *)
(* initial condition and specification.  The variables of the scripts that *)
(* a specification does not run stay at their idle values.                 *)
(***************************************************************************)
EXTENDS Integers, Sequences, FiniteSets, TLC

VARIABLES
  \* align_direction applied to one pair of lines
  al_pc, line1, line2, al_result,
  \* Align_bankline_direction.py, batch run
  river_listing, bankline_dir, ab_i, ab_pc, ab_exc, ab_output, ab_warned,
  \* CL_Bankline_intersection_check.py
  bank_dir, centerline_dir, bank_line_files, in_i, in_pc, in_output, in_last, in_printed,
  \* Check_proj_all_shapefiles_in_folder_and_reproject.py
  rp_folder, target_epsg, shapefiles, rp_i, rp_pc, rp_last, rp_printed,
  \* Minimum_distacne_Bankline.py
  bank_line_path, threshold, multi_iterable, px_i, px_pc, px_distance, px_k, px_segments,
  px_output, px_last, px_printed,
  \* multilinestring_parts.py
  sp_gdf, sp_has_column, sp_folder, sp_index, sp_i, sp_pc, sp_run, sp_writes,
  \* XYZ_txt_files_to_raster.py
  directory, output_dir, rs_i, rs_pc, rs_run, rs_last, rs_writes,
  \* XYZ_txt_files_to_raster.py, line 52 applied to one Easting value
  ce_pc, ce_text, ce_result,
  \* Merge_all_tiff_files_within_a_folder.py
  input_tiffs, mt_i, mt_pc, mt_open, mt_closed, mt_written,
  \* Merge_shapefiles_Visdom.py
  ms_listing, ms_i, ms_pc, ms_read, gdfs, combined_gdf,
  \* Minimum_distacne_Bankline.py, one call of find_nearby_segments
  fn_threshold, fn_iterable, fn_pc, fn_k, fn_distances, fn_segments

alignFnVars == <<al_pc, line1, line2, al_result>>
alignBatchVars == <<river_listing, bankline_dir, ab_i, ab_pc, ab_exc, ab_output, ab_warned>>
interVars == <<bank_dir, centerline_dir, bank_line_files, in_i, in_pc, in_output, in_last,
               in_printed>>
reprojVars == <<rp_folder, target_epsg, shapefiles, rp_i, rp_pc, rp_last, rp_printed>>
proxVars == <<bank_line_path, threshold, multi_iterable, px_i, px_pc, px_distance, px_k,
              px_segments, px_output, px_last, px_printed>>
splitVars == <<sp_gdf, sp_has_column, sp_folder, sp_index, sp_i, sp_pc, sp_run, sp_writes>>
rasterVars == <<directory, output_dir, rs_i, rs_pc, rs_run, rs_last, rs_writes>>
cleanVars == <<ce_pc, ce_text, ce_result>>
tiffVars == <<input_tiffs, mt_i, mt_pc, mt_open, mt_closed, mt_written>>
tableVars == <<ms_listing, ms_i, ms_pc, ms_read, gdfs, combined_gdf>>
nearVars == <<fn_threshold, fn_iterable, fn_pc, fn_k, fn_distances, fn_segments>>
vars == <<alignFnVars, alignBatchVars, interVars, reprojVars, proxVars, splitVars, rasterVars,
          cleanVars, tiffVars, tableVars, nearVars>>

(* ---------------------------------------------------------------------- *)
(* Bounds                                                                  *)
(* ---------------------------------------------------------------------- *)
MaxCoord == 1
MaxPts == 3
MaxFiles == 2
MaxThreshold == 3
MaxDist == 3
MaxSamples == 2
MaxRows == 3
MaxParts == 2
MaxGew == 2
MaxRuns == 2
MaxAscRows == 2
MaxEastingLen == 5
MaxTiffs == 3
MaxTableRows == 2

(* ---------------------------------------------------------------------- *)
(* Python results: a call either returns a value or raises an exception.   *)
(* ---------------------------------------------------------------------- *)
Return(v) == [exc |-> "None", ret |-> <<v>>]
Raise(e) == [exc |-> e, ret |-> <<>>]
Raised(r) == r.exc # "None"
Val(r) == r.ret[1]

(* ---------------------------------------------------------------------- *)
(* File names.  A name is kept as its parts so that the scripts' string    *)
(* operations (endswith, splitext, replace, prefixing) act on it.          *)
(* ---------------------------------------------------------------------- *)
Stems == {"a", "b"}
Suffixes == {"_korr", "_lines"}
FileName(stem, suffix, ext) == [stem |-> stem, suffix |-> suffix, ext |-> ext]
ShpNames == {FileName(s, x, ".shp") : s \in Stems, x \in Suffixes}
DirNames == ShpNames \cup {FileName(s, "_korr", ".dbf") : s \in Stems}

Range(q) == {q[k] : k \in DOMAIN q}

\* filename.endswith(ext)
EndsWith(name, ext) == name.ext = ext

\* Listings of a directory: its names in any order, without repetition.
Injective(q) == \A j, k \in DOMAIN q : q[j] = q[k] => j = k
Listings(names, maxLen) ==
  {q \in UNION {[1..n -> names] : n \in 0..maxLen} : Injective(q)}

\* Variables of the scripts that are not running.
AlignFnIdle ==
  /\ al_pc = "idle" /\ line1 = <<>> /\ line2 = <<>> /\ al_result = Raise("NotCalled")
AlignBatchIdle ==
  /\ river_listing = <<>> /\ bankline_dir = {} /\ ab_i = 0 /\ ab_pc = "idle"
  /\ ab_exc = "None" /\ ab_output = {} /\ ab_warned = {}

NoIteration == [outcome |-> "none"]
InterIdle ==
  /\ bank_dir = <<>> /\ centerline_dir = {} /\ bank_line_files = <<>> /\ in_i = 0
  /\ in_pc = "idle" /\ in_output = {} /\ in_last = NoIteration /\ in_printed = <<>>

ReprojIdle ==
  /\ rp_folder = <<>> /\ target_epsg = 0 /\ shapefiles = <<>> /\ rp_i = 0
  /\ rp_pc = "idle" /\ rp_last = NoIteration /\ rp_printed = <<>>

ProxIdle ==
  /\ bank_line_path = <<>> /\ threshold = 0 /\ multi_iterable = FALSE /\ px_i = 0
  /\ px_pc = "idle" /\ px_distance = 0 /\ px_k = 0 /\ px_segments = <<>>
  /\ px_output = {} /\ px_last = NoIteration /\ px_printed = <<>>

SplitIdle ==
  /\ sp_gdf = <<>> /\ sp_has_column = FALSE /\ sp_folder = {} /\ sp_index = 0 /\ sp_i = 0
  /\ sp_pc = "idle" /\ sp_run = 0 /\ sp_writes = <<>>

RasterIdle ==
  /\ directory = <<>> /\ output_dir = {} /\ rs_i = 0 /\ rs_pc = "idle" /\ rs_run = 0
  /\ rs_last = NoIteration /\ rs_writes = <<>>

CleanIdle ==
  /\ ce_pc = "idle" /\ ce_text = <<>> /\ ce_result = Raise("NotCalled")
TiffIdle ==
  /\ input_tiffs = <<>> /\ mt_i = 0 /\ mt_pc = "idle" /\ mt_open = {} /\ mt_closed = {}
  /\ mt_written = {}
TableIdle ==
  /\ ms_listing = <<>> /\ ms_i = 0 /\ ms_pc = "idle" /\ ms_read = <<>> /\ gdfs = <<>>
  /\ combined_gdf = <<>>
NearIdle ==
  /\ fn_threshold = 0 /\ fn_iterable = FALSE /\ fn_pc = "idle" /\ fn_k = 0
  /\ fn_distances = <<>> /\ fn_segments = <<>>

Idle(script) ==
  /\ IF script = "alignfn" THEN TRUE ELSE AlignFnIdle
  /\ IF script = "alignbatch" THEN TRUE ELSE AlignBatchIdle
  /\ IF script = "intersections" THEN TRUE ELSE InterIdle
  /\ IF script = "reproject" THEN TRUE ELSE ReprojIdle
  /\ IF script = "proximity" THEN TRUE ELSE ProxIdle
  /\ IF script = "split" THEN TRUE ELSE SplitIdle
  /\ IF script = "raster" THEN TRUE ELSE RasterIdle
  /\ IF script = "clean" THEN TRUE ELSE CleanIdle
  /\ IF script = "tiffs" THEN TRUE ELSE TiffIdle
  /\ IF script = "tables" THEN TRUE ELSE TableIdle
  /\ IF script = "nearby" THEN TRUE ELSE NearIdle

(* ---------------------------------------------------------------------- *)
(* Align_bankline_direction.py                                             *)
(* ---------------------------------------------------------------------- *)
Points == (0..MaxCoord) \X (0..MaxCoord)
LineStrings == UNION {[1..n -> Points] : n \in 2..MaxPts}

\* Names bound at module level by the import statements and the defs.
AlignModuleGlobals ==
  {"os", "gpd", "LineString", "MultiLineString", "n",
   "get_direction_vector", "is_same_direction", "align_direction",
   "convert_to_linestring", "process_lines", "process_shapefiles",
   "batch_process_shapefiles"}

\* Looking up a global name that no statement has bound raises NameError.
AlignNameBound(name) == name \in AlignModuleGlobals

\* line.coords[::-1]
Reversed(coords) == [k \in 1..Len(coords) |-> coords[Len(coords) + 1 - k]]

\* The returned vector is direction_vector / norm; it is kept as the pair
\* (direction_vector, norm^2) because the quotient is not an integer.
\* A zero norm returns (0, 0).
get_direction_vector(line) ==
  IF ~AlignNameBound("np") THEN Raise("NameError")
  ELSE LET start_point == line[1]
           end_point == line[Len(line)]
           direction_vector == <<end_point[1] - start_point[1],
                                 end_point[2] - start_point[2]>>
           norm2 == direction_vector[1] * direction_vector[1]
                    + direction_vector[2] * direction_vector[2]
       IN IF norm2 = 0 THEN Return([v |-> <<0, 0>>, norm2 |-> 1])
          ELSE Return([v |-> direction_vector, norm2 |-> norm2])

\* np.dot(dir1, dir2) > 0: dividing both vectors by their positive norms
\* does not change the sign of the dot product.
DotPositive(dir1, dir2) ==
  dir1.v[1] * dir2.v[1] + dir1.v[2] * dir2.v[2] > 0

is_same_direction(l1, l2) ==
  LET dir1 == get_direction_vector(l1)
  IN IF Raised(dir1) THEN Raise(dir1.exc)
     ELSE LET dir2 == get_direction_vector(l2)
          IN IF Raised(dir2) THEN Raise(dir2.exc)
             ELSE Return(DotPositive(Val(dir1), Val(dir2)))

align_direction(l1, l2) ==
  LET same == is_same_direction(l1, l2)
  IN IF Raised(same) THEN Raise(same.exc)
     ELSE IF Val(same) THEN Return(l2)
     ELSE Return(Reversed(l2))

\* The pure function applied to one pair of lines.
AlignFnStart ==
  /\ al_pc = "call"
  /\ line1 \in LineStrings
  /\ line2 \in LineStrings
  /\ al_result = Raise("NotCalled")

AlignFnInit == AlignFnStart /\ Idle("alignfn")

CallAlignDirection ==
  /\ al_pc = "call"
  /\ al_result' = align_direction(line1, line2)
  /\ al_pc' = "returned"
  /\ UNCHANGED <<line1, line2>>
  /\ UNCHANGED <<alignBatchVars, interVars, reprojVars, proxVars, splitVars, rasterVars,
                 cleanVars, tiffVars, tableVars, nearVars>>

AlignFnNext == CallAlignDirection

SpecAlignFn == AlignFnInit /\ [][AlignFnNext]_vars

\* Endpoint-to-endpoint vector of a line and the dot product of two of them.
EndVec(l) == <<l[Len(l)][1] - l[1][1], l[Len(l)][2] - l[1][2]>>
EndDot(l1, l2) == EndVec(l1)[1] * EndVec(l2)[1] + EndVec(l1)[2] * EndVec(l2)[2]

\* C1: align_direction returns line2 reversed exactly when the endpoint
\* vectors oppose (negative dot product) and line2 unchanged otherwise.
C1_ReversedIffOpposed ==
  al_pc = "returned" =>
    al_result = Return(IF EndDot(line1, line2) < 0 THEN Reversed(line2) ELSE line2)

\* C2: the line returned by align_direction has the drawing direction of
\* line1, i.e. is_same_direction(line1, result) is true.
C2_ResultSameDirection ==
  al_pc = "returned" =>
    /\ ~Raised(al_result)
    /\ is_same_direction(line1, Val(al_result)) = Return(TRUE)

\* Geometries read from the shapefiles of the batch run.
East == <<<<0, 0>>, <<1, 0>>>>
West == <<<<1, 0>>, <<0, 0>>>>
LineStringGeom(coords) == [type |-> "LineString", parts |-> <<coords>>]
BatchGeoms ==
  {LineStringGeom(East), LineStringGeom(West),
   [type |-> "MultiLineString", parts |-> <<East, West>>],
   [type |-> "Polygon", parts |-> <<>>]}
RiverTables == UNION {[1..n -> BatchGeoms] : n \in 0..1}
BankTables == UNION {[1..n -> BatchGeoms] : n \in 0..2}

\* merged_coords.extend(line.coords) over all parts
RECURSIVE MergedCoords(_)
MergedCoords(parts) ==
  IF parts = <<>> THEN <<>> ELSE Head(parts) \o MergedCoords(Tail(parts))

convert_to_linestring(geometry) ==
  IF geometry.type = "LineString" THEN Return(geometry.parts[1])
  ELSE IF geometry.type = "MultiLineString" THEN Return(MergedCoords(geometry.parts))
  ELSE Raise("ValueError")

process_lines(g1, g2) ==
  LET l1 == convert_to_linestring(g1)
  IN IF Raised(l1) THEN Raise(l1.exc)
     ELSE LET l2 == convert_to_linestring(g2)
          IN IF Raised(l2) THEN Raise(l2.exc)
             ELSE align_direction(Val(l1), Val(l2))

\* gdf.geometry.iloc[k] (k counted from 0)
Iloc(gdf, k) == IF k + 1 \in DOMAIN gdf THEN Return(gdf[k + 1]) ELSE Raise("IndexError")

\* Returns the table that to_file writes.  writeThrough: whether the chained
\* assignment banklines_gdf.geometry.iloc[k] = ... reaches banklines_gdf
\* (it depends on the pandas copy-on-write mode).
process_shapefiles(river_gdf, banklines_gdf, writeThrough) ==
  LET river_line == Iloc(river_gdf, 0)
      bankline1 == Iloc(banklines_gdf, 0)
      bankline2 == Iloc(banklines_gdf, 1)
  IN IF Raised(river_line) THEN Raise(river_line.exc)
     ELSE IF Raised(bankline1) THEN Raise(bankline1.exc)
     ELSE IF Raised(bankline2) THEN Raise(bankline2.exc)
     ELSE LET aligned_bankline1 == process_lines(Val(river_line), Val(bankline1))
          IN IF Raised(aligned_bankline1) THEN Raise(aligned_bankline1.exc)
             ELSE LET aligned_bankline2 == process_lines(Val(river_line), Val(bankline2))
                  IN IF Raised(aligned_bankline2) THEN Raise(aligned_bankline2.exc)
                     ELSE IF writeThrough
                          THEN Return([banklines_gdf EXCEPT
                                         ![1] = LineStringGeom(Val(aligned_bankline1)),
                                         ![2] = LineStringGeom(Val(aligned_bankline2))])
                          ELSE Return(banklines_gdf)

\* river_basename.replace('_korr', '_lines') + '.shp'
BanklineFilename(river_filename) ==
  FileName(river_filename.stem,
           IF river_filename.suffix = "_korr" THEN "_lines" ELSE river_filename.suffix,
           ".shp")

\* to_file(path): the file of that name is created or replaced.
WriteFile(folder, name, table) ==
  {f \in folder : f.name # name} \cup {[name |-> name, table |-> table]}
FileNames(folder) == {f.name : f \in folder}

AlignBatchStart ==
  /\ river_listing \in Listings(DirNames, MaxFiles)
  /\ bankline_dir \in SUBSET {n \in ShpNames : n.suffix = "_lines"}
  /\ ab_i = 1
  /\ ab_pc = "loop"
  /\ ab_exc = "None"
  /\ ab_output = {}
  /\ ab_warned = {}

AlignBatchInit == AlignBatchStart /\ Idle("alignbatch")

\* Loop body for a listing entry that is not a .shp file.
BatchSkipOther ==
  /\ ab_pc = "loop" /\ ab_i <= Len(river_listing)
  /\ ~EndsWith(river_listing[ab_i], ".shp")
  /\ ab_i' = ab_i + 1
  /\ UNCHANGED <<river_listing, bankline_dir, ab_pc, ab_exc, ab_output, ab_warned>>
  /\ UNCHANGED <<alignFnVars, interVars, reprojVars, proxVars, splitVars, rasterVars,
                 cleanVars, tiffVars, tableVars, nearVars>>

\* Loop body for a river file whose bankline file exists; an exception of
\* process_shapefiles is not handled and ends the script.
BatchProcess ==
  /\ ab_pc = "loop" /\ ab_i <= Len(river_listing)
  /\ EndsWith(river_listing[ab_i], ".shp")
  /\ BanklineFilename(river_listing[ab_i]) \in bankline_dir
  /\ \E river_gdf \in RiverTables, banklines_gdf \in BankTables, writeThrough \in BOOLEAN :
       LET r == process_shapefiles(river_gdf, banklines_gdf, writeThrough)
       IN IF Raised(r)
          THEN /\ ab_pc' = "aborted"
               /\ ab_exc' = r.exc
               /\ UNCHANGED <<ab_i, ab_output>>
          ELSE /\ ab_output' = WriteFile(ab_output, BanklineFilename(river_listing[ab_i]), Val(r))
               /\ ab_i' = ab_i + 1
               /\ UNCHANGED <<ab_pc, ab_exc>>
  /\ UNCHANGED <<river_listing, bankline_dir, ab_warned>>
  /\ UNCHANGED <<alignFnVars, interVars, reprojVars, proxVars, splitVars, rasterVars,
                 cleanVars, tiffVars, tableVars, nearVars>>

\* Loop body for a river file without a bankline file: a warning is printed.
BatchWarn ==
  /\ ab_pc = "loop" /\ ab_i <= Len(river_listing)
  /\ EndsWith(river_listing[ab_i], ".shp")
  /\ BanklineFilename(river_listing[ab_i]) \notin bankline_dir
  /\ ab_warned' = ab_warned \cup {river_listing[ab_i]}
  /\ ab_i' = ab_i + 1
  /\ UNCHANGED <<river_listing, bankline_dir, ab_pc, ab_exc, ab_output>>
  /\ UNCHANGED <<alignFnVars, interVars, reprojVars, proxVars, splitVars, rasterVars,
                 cleanVars, tiffVars, tableVars, nearVars>>

BatchReturn ==
  /\ ab_pc = "loop" /\ ab_i > Len(river_listing)
  /\ ab_pc' = "done"
  /\ UNCHANGED <<river_listing, bankline_dir, ab_i, ab_exc, ab_output, ab_warned>>
  /\ UNCHANGED <<alignFnVars, interVars, reprojVars, proxVars, splitVars, rasterVars,
                 cleanVars, tiffVars, tableVars, nearVars>>

AlignBatchNext == BatchSkipOther \/ BatchProcess \/ BatchWarn \/ BatchReturn

SpecAlignBatch == AlignBatchInit /\ [][AlignBatchNext]_vars

\* C3: when the batch has ended (other than on a shapefile with missing
\* features or an unsupported geometry type), every .shp river file whose
\* bankline file exists has an aligned bankline file of the bankline's name
\* in the output folder, and every .shp river file without one has only been
\* warned about.
C3_BatchWritesAligned ==
  (ab_pc \in {"done", "aborted"} /\ ab_exc \notin {"IndexError", "ValueError"}) =>
    \A k \in DOMAIN river_listing :
      EndsWith(river_listing[k], ".shp") =>
        IF BanklineFilename(river_listing[k]) \in bankline_dir
        THEN BanklineFilename(river_listing[k]) \in FileNames(ab_output)
        ELSE river_listing[k] \in ab_warned

(* ---------------------------------------------------------------------- *)
(* CL_Bankline_intersection_check.py                                       *)
(* ---------------------------------------------------------------------- *)
\* Geometries that centerline.intersection(bank_line) can return.
SimpleGeom(type, id) == [type |-> type, id |-> id, geoms |-> <<>>, is_empty |-> FALSE]
MultiGeom(type, geoms) == [type |-> type, id |-> 0, geoms |-> geoms, is_empty |-> FALSE]
EmptyGeom == [type |-> "LineString", id |-> 0, geoms |-> <<>>, is_empty |-> TRUE]
IntersectionResults ==
  {EmptyGeom,
   SimpleGeom("Point", 1),
   SimpleGeom("LineString", 1),
   MultiGeom("MultiPoint", <<SimpleGeom("Point", 1), SimpleGeom("Point", 2)>>),
   MultiGeom("MultiLineString", <<SimpleGeom("LineString", 1), SimpleGeom("LineString", 2)>>),
   MultiGeom("GeometryCollection", <<SimpleGeom("Point", 2), SimpleGeom("LineString", 2)>>)}
BankCounts == 1..3
CenterCounts == 0..2

\* isinstance(geom, Point)
IsPoint(geom) == geom.type = "Point"
\* hasattr(geom, 'geoms')
HasGeoms(geom) == geom.type \in {"MultiPoint", "MultiLineString", "GeometryCollection"}
\* centerline.intersects(bank_line) is true exactly when the intersection is
\* not empty.
Intersects(intersection) == ~intersection.is_empty

\* Mutant: the members of a multi-part intersection are taken unfiltered.
PointsOfIntersection_Unfiltered(intersection) ==
  IF ~Intersects(intersection) THEN <<>>
  ELSE IF intersection.is_empty THEN <<>>
  ELSE IF IsPoint(intersection) THEN <<intersection>>
  ELSE IF HasGeoms(intersection) THEN intersection.geoms
  ELSE <<>>

\* The points one bank line adds to intersection_points (lines 81-87, 89-95).
PointsOfIntersection(intersection) ==
  IF ~Intersects(intersection) THEN <<>>
  ELSE IF intersection.is_empty THEN <<>>
  ELSE IF IsPoint(intersection) THEN <<intersection>>
  ELSE IF HasGeoms(intersection) THEN SelectSeq(intersection.geoms, IsPoint)
  ELSE <<>>

\* bank_file.replace('_lines.shp', '_korr.shp')
CenterlineFile(bank_file) ==
  IF bank_file.suffix = "_lines" /\ bank_file.ext = ".shp"
  THEN FileName(bank_file.stem, "_korr", ".shp")
  ELSE bank_file

\* [f for f in os.listdir(folder) if f.endswith('.shp')]
IsShp(name) == EndsWith(name, ".shp")
ShapefilesOf(listing) == SelectSeq(listing, IsShp)

\* len(bank_lines_gdf) != 2 (line 65) and len(centerline_gdf) != 1 (line 69)
WrongBankCount_TooFew(n) == n < 2
WrongBankCount(n) == n # 2
WrongCenterCount(n) == n # 1

InterStart ==
  /\ bank_dir \in Listings(DirNames, MaxFiles)
  /\ centerline_dir \in SUBSET ShpNames
  /\ bank_line_files = <<>>
  /\ in_i = 0
  /\ in_pc = "start"
  /\ in_output = {}
  /\ in_last = NoIteration
  /\ in_printed = <<>>

InterInit == InterStart /\ Idle("intersections")

\* Lines 40-45: list the bank line shapefiles.
InterList ==
  /\ in_pc = "start"
  /\ bank_line_files' = ShapefilesOf(bank_dir)
  /\ in_i' = 1
  /\ in_pc' = "loop"
  /\ UNCHANGED <<bank_dir, centerline_dir, in_output, in_last, in_printed>>
  /\ UNCHANGED <<alignFnVars, alignBatchVars, reprojVars, proxVars, splitVars, rasterVars,
                 cleanVars, tiffVars, tableVars, nearVars>>

InterIterating == in_pc = "loop" /\ in_i <= Len(bank_line_files)

\* What one loop iteration saw and did: the feature counts and intersections
\* it read (0 and EmptyGeom when it did not get that far) and its to_file
\* call, if any.
Iteration(bank_file, found, n_bank, n_center, i1, i2, to_file) ==
  [outcome |-> "iterated", bank_file |-> bank_file, centerline_found |-> found,
   n_bank |-> n_bank, n_center |-> n_center,
   intersection1 |-> i1, intersection2 |-> i2, to_file |-> to_file]

\* Lines 56-58: no centerline file of the matching name.
InterNoCenterline ==
  /\ InterIterating
  /\ CenterlineFile(bank_line_files[in_i]) \notin centerline_dir
  /\ in_last' = Iteration(bank_line_files[in_i], FALSE, 0, 0, EmptyGeom, EmptyGeom, <<>>)
  /\ in_printed' = Append(in_printed, "No corresponding centerline file found")
  /\ in_i' = in_i + 1
  /\ UNCHANGED <<bank_dir, centerline_dir, bank_line_files, in_pc, in_output>>
  /\ UNCHANGED <<alignFnVars, alignBatchVars, reprojVars, proxVars, splitVars, rasterVars,
                 cleanVars, tiffVars, tableVars, nearVars>>

\* Lines 61-67: the bank lines shapefile does not hold two features.
InterBadBankCount ==
  /\ InterIterating
  /\ CenterlineFile(bank_line_files[in_i]) \in centerline_dir
  /\ \E n_bank \in BankCounts, n_center \in CenterCounts :
       /\ WrongBankCount(n_bank)
       /\ in_last' = Iteration(bank_line_files[in_i], TRUE, n_bank, n_center,
                               EmptyGeom, EmptyGeom, <<>>)
  /\ in_printed' = Append(in_printed, "must contain exactly two LineString geometries")
  /\ in_i' = in_i + 1
  /\ UNCHANGED <<bank_dir, centerline_dir, bank_line_files, in_pc, in_output>>
  /\ UNCHANGED <<alignFnVars, alignBatchVars, reprojVars, proxVars, splitVars, rasterVars,
                 cleanVars, tiffVars, tableVars, nearVars>>

\* Lines 61-71: the centerline shapefile does not hold one feature.
InterBadCenterCount ==
  /\ InterIterating
  /\ CenterlineFile(bank_line_files[in_i]) \in centerline_dir
  /\ \E n_bank \in BankCounts, n_center \in CenterCounts :
       /\ ~WrongBankCount(n_bank)
       /\ WrongCenterCount(n_center)
       /\ in_last' = Iteration(bank_line_files[in_i], TRUE, n_bank, n_center,
                               EmptyGeom, EmptyGeom, <<>>)
  /\ in_printed' = Append(in_printed, "must contain exactly one LineString geometry")
  /\ in_i' = in_i + 1
  /\ UNCHANGED <<bank_dir, centerline_dir, bank_line_files, in_pc, in_output>>
  /\ UNCHANGED <<alignFnVars, alignBatchVars, reprojVars, proxVars, splitVars, rasterVars,
                 cleanVars, tiffVars, tableVars, nearVars>>

\* Lines 73-109: intersect the centerline with both bank lines and save the
\* points found, if any, under the centerline file's name.
InterIntersect ==
  /\ InterIterating
  /\ CenterlineFile(bank_line_files[in_i]) \in centerline_dir
  /\ \E n_bank \in BankCounts, n_center \in CenterCounts,
        intersection1 \in IntersectionResults, intersection2 \in IntersectionResults :
       /\ ~WrongBankCount(n_bank)
       /\ ~WrongCenterCount(n_center)
       /\ LET intersection_points ==
                PointsOfIntersection(intersection1) \o PointsOfIntersection(intersection2)
              output_file_path == CenterlineFile(bank_line_files[in_i])
          IN IF intersection_points # <<>>
             THEN /\ in_last' = Iteration(bank_line_files[in_i], TRUE, n_bank, n_center,
                                          intersection1, intersection2,
                                          <<[path |-> output_file_path,
                                             geometry |-> intersection_points]>>)
                  /\ in_output' = in_output \cup {output_file_path}
                  /\ in_printed' = Append(in_printed, "Intersection points saved")
             ELSE /\ in_last' = Iteration(bank_line_files[in_i], TRUE, n_bank, n_center,
                                          intersection1, intersection2, <<>>)
                  /\ in_output' = in_output
                  /\ in_printed' = Append(in_printed, "No intersections found")
  /\ in_i' = in_i + 1
  /\ UNCHANGED <<bank_dir, centerline_dir, bank_line_files, in_pc>>
  /\ UNCHANGED <<alignFnVars, alignBatchVars, reprojVars, proxVars, splitVars, rasterVars,
                 cleanVars, tiffVars, tableVars, nearVars>>

InterReturn ==
  /\ in_pc = "loop" /\ in_i > Len(bank_line_files)
  /\ in_pc' = "done"
  /\ UNCHANGED <<bank_dir, centerline_dir, bank_line_files, in_i, in_output, in_last, in_printed>>
  /\ UNCHANGED <<alignFnVars, alignBatchVars, reprojVars, proxVars, splitVars, rasterVars,
                 cleanVars, tiffVars, tableVars, nearVars>>

InterNext ==
  \/ InterList \/ InterNoCenterline \/ InterBadBankCount \/ InterBadCenterCount
  \/ InterIntersect \/ InterReturn

SpecIntersections == InterInit /\ [][InterNext]_vars

Wrote == in_last.outcome = "iterated" /\ in_last.to_file # <<>>

\* C4: every geometry written to an intersection output file is a Point that
\* is the whole intersection of the centerline with one of the two bank lines
\* or a Point member of it, and a file is written only with at least one point.
C4_OnlyIntersectionPointsWritten ==
  Wrote =>
    /\ in_last.to_file[1].geometry # <<>>
    /\ \A g \in Range(in_last.to_file[1].geometry) :
         /\ g.type = "Point"
         /\ \E x \in {in_last.intersection1, in_last.intersection2} :
              g = x \/ g \in Range(x.geoms)

\* C4 witness: a file was written from a collection holding a point and a
\* line while the other bank line overlaps the centerline in a line.
C4_Witness ==
  /\ Wrote
  /\ in_last.intersection1.type = "GeometryCollection"
  /\ in_last.intersection2.type = "LineString" /\ ~in_last.intersection2.is_empty
  /\ Len(in_last.to_file[1].geometry) = 1

\* C5: an iteration whose bank line file has no centerline file, or not
\* exactly 2 features, or whose centerline file has not exactly 1 feature,
\* writes no file; and the run ends only after every listed bank line file
\* has had its iteration.
C5_SkippedAndContinued ==
  /\ (in_last.outcome = "iterated"
      /\ (~in_last.centerline_found \/ in_last.n_bank # 2 \/ in_last.n_center # 1))
       => in_last.to_file = <<>>
  /\ in_pc = "done" =>
       /\ in_i = Len(bank_line_files) + 1
       /\ Len(in_printed) = Len(bank_line_files)
       /\ bank_line_files = ShapefilesOf(bank_dir)

\* C5 witness: a run that skipped its first file for its feature count and
\* then saved the intersections of the second.
C5_Witness ==
  /\ in_pc = "done"
  /\ Len(in_printed) = 2
  /\ in_printed[1] = "must contain exactly two LineString geometries"
  /\ in_printed[2] = "Intersection points saved"

(* ---------------------------------------------------------------------- *)
(* Exceptions caught by "except Exception as e"                            *)
(* ---------------------------------------------------------------------- *)
\* Mutant: the handler catches ValueError only.
CaughtByExceptException_ValueErrorOnly(exc) == exc = "ValueError"

\* Every exception the scripts meet derives from Exception.
CaughtByExceptException(exc) ==
  exc \in {"ValueError", "TypeError", "DriverError", "NameError", "IndexError"}

\* print(f"Error processing {filename}: {e}")
ErrorMessage(exc) ==
  IF exc = "ValueError"
  THEN "Error processing: The shapefile must contain exactly two LineString geometries."
  ELSE IF exc = "TypeError" THEN "Error processing: object is not iterable"
  ELSE "Error processing: the file could not be read"

(* ---------------------------------------------------------------------- *)
(* Check_proj_all_shapefiles_in_folder_and_reproject.py                    *)
(* ---------------------------------------------------------------------- *)
EpsgCodes == {25832, 4326}
\* crs.to_epsg() of a CRS that matches no EPSG code is None, kept as 0.
NoEpsg == 0
Crs(defined, epsg) == [defined |-> defined, epsg |-> epsg]
\* gdf.crs after gpd.read_file: None, or a CRS with or without an EPSG code.
CrsValues == {Crs(FALSE, NoEpsg)} \cup {Crs(TRUE, e) : e \in EpsgCodes \cup {NoEpsg}}
\* gpd.read_file(shapefile_path): the table, or an error for an unreadable file.
ReprojReads == {Raise("DriverError")} \cup {Return([crs |-> c]) : c \in CrsValues}

ReprojBaseNames == {FileName(s, "_lines", e) : s \in Stems, e \in {".shp", ".dbf"}}
\* f"reprojected_{shapefile}": a name with k leading "reprojected_" prefixes.
Prefixed(k, base) == [reprojected |-> k, base |-> base]
ReprojectedName(shapefile) == Prefixed(shapefile.reprojected + 1, shapefile.base)
ReprojDirNames == {Prefixed(k, b) : k \in 0..1, b \in ReprojBaseNames}
IsShpPrefixed(name) == EndsWith(name.base, ".shp")

\* Mutant: the file is reprojected whatever its EPSG code.
NeedsReprojection_Always(current_epsg, target) == TRUE

\* current_epsg != target_epsg (line 32)
NeedsReprojection(current_epsg, target) == current_epsg # target

\* Lines 22-46, the try block for one shapefile: the exception it ends with,
\* the last message it prints and its to_file call, if any.
ReprojectOne(shapefile, read, target) ==
  IF Raised(read)
  THEN [outcome |-> "iterated", shapefile |-> shapefile, exc |-> read.exc,
        crs |-> Crs(FALSE, NoEpsg), printed |-> ErrorMessage(read.exc), to_file |-> <<>>]
  ELSE LET gdf == Val(read)
       IN IF gdf.crs.defined
          THEN IF NeedsReprojection(gdf.crs.epsg, target)
               THEN [outcome |-> "iterated", shapefile |-> shapefile, exc |-> "None",
                     crs |-> gdf.crs, printed |-> "Saved reprojected shapefile",
                     to_file |-> <<[path |-> ReprojectedName(shapefile),
                                    crs |-> Crs(TRUE, target)]>>]
               ELSE [outcome |-> "iterated", shapefile |-> shapefile, exc |-> "None",
                     crs |-> gdf.crs, printed |-> "is already in EPSG", to_file |-> <<>>]
          ELSE [outcome |-> "iterated", shapefile |-> shapefile, exc |-> "None",
                crs |-> gdf.crs, printed |-> "CRS: Not defined", to_file |-> <<>>]

ReprojStart ==
  /\ rp_folder \in Listings(ReprojDirNames, MaxFiles)
  /\ target_epsg \in EpsgCodes
  /\ shapefiles = <<>>
  /\ rp_i = 0
  /\ rp_pc = "start"
  /\ rp_last = NoIteration
  /\ rp_printed = <<>>

ReprojInit == ReprojStart /\ Idle("reproject")

\* Line 16: list the shapefiles of the folder.
ReprojList ==
  /\ rp_pc = "start"
  /\ shapefiles' = SelectSeq(rp_folder, IsShpPrefixed)
  /\ rp_i' = 1
  /\ rp_pc' = "loop"
  /\ UNCHANGED <<rp_folder, target_epsg, rp_last, rp_printed>>
  /\ UNCHANGED <<alignFnVars, alignBatchVars, interVars, proxVars, splitVars, rasterVars,
                 cleanVars, tiffVars, tableVars, nearVars>>

\* Lines 19-46: one iteration; the new file, if any, lands in the folder.
ReprojIterate ==
  /\ rp_pc = "loop" /\ rp_i <= Len(shapefiles)
  /\ \E read \in ReprojReads :
       LET it == ReprojectOne(shapefiles[rp_i], read, target_epsg)
       IN /\ rp_last' = it
          /\ rp_folder' = IF it.to_file # <<>> /\ it.to_file[1].path \notin Range(rp_folder)
                          THEN Append(rp_folder, it.to_file[1].path)
                          ELSE rp_folder
          /\ IF it.exc = "None" \/ CaughtByExceptException(it.exc)
             THEN /\ rp_printed' = Append(rp_printed, it.printed)
                  /\ rp_i' = rp_i + 1
                  /\ rp_pc' = rp_pc
             ELSE /\ rp_pc' = "aborted"
                  /\ UNCHANGED <<rp_i, rp_printed>>
  /\ UNCHANGED <<target_epsg, shapefiles>>
  /\ UNCHANGED <<alignFnVars, alignBatchVars, interVars, proxVars, splitVars, rasterVars,
                 cleanVars, tiffVars, tableVars, nearVars>>

ReprojReturn ==
  /\ rp_pc = "loop" /\ rp_i > Len(shapefiles)
  /\ rp_pc' = "done"
  /\ UNCHANGED <<rp_folder, target_epsg, shapefiles, rp_i, rp_last, rp_printed>>
  /\ UNCHANGED <<alignFnVars, alignBatchVars, interVars, proxVars, splitVars, rasterVars,
                 cleanVars, tiffVars, tableVars, nearVars>>

ReprojNext == ReprojList \/ ReprojIterate \/ ReprojReturn

SpecReproject == ReprojInit /\ [][ReprojNext]_vars

Dists == 0..MaxDist
Thresholds == 1..MaxThreshold
\* The distance that line 139 compares with.
TwoMetres == 2

\* Types of buffer.intersection(line_part).
SegmentTypes == {"LineString", "MultiLineString", "GeometryCollection"}
\* One sample point of line1: its distance to the nearest point of line2 and
\* the types of the two buffer intersections.
Samples == [distance : Dists, potential_segments1 : SegmentTypes,
            potential_segments2 : SegmentTypes]

Segment(k, line, type) == [sample |-> k, of |-> line, type |-> type]

\* Lines 71-74 and 76-79: what one buffer intersection adds to segments.
\* segments.extend(multi) iterates the parts where the geometry library
\* lets a multi-part geometry be iterated and raises TypeError elsewhere.
AddSegments(segments, k, line, type, iterable) ==
  IF type = "LineString" THEN Return(Append(segments, Segment(k, line, type)))
  ELSE IF type = "MultiLineString"
       THEN IF iterable
            THEN Return(segments \o <<Segment(k, line, "LineString"),
                                      Segment(k, line, "LineString")>>)
            ELSE Raise("TypeError")
  ELSE Return(segments)

\* Mutant: a sample point at exactly the threshold counts as near.
SampleIsNear_OrEqual(distance, limit) == distance <= limit

\* distance < threshold (line 60)
SampleIsNear(distance, limit) == distance < limit

\* Lines 56-79: the loop body of find_nearby_segments for sample k.
SampleStep(segments, k, sample, limit, iterable) ==
  IF SampleIsNear(sample.distance, limit)
  THEN LET s1 == AddSegments(segments, k, 1, sample.potential_segments1, iterable)
       IN IF Raised(s1) THEN Raise(s1.exc)
          ELSE AddSegments(Val(s1), k, 2, sample.potential_segments2, iterable)
  ELSE Return(segments)

\* gpd.read_file(input_shapefile_path): the number of features, or an error.
ProxReads == {Raise("DriverError")} \cup {Return(n) : n \in 1..3}

\* distance >= 2 (line 139)
TooFarApart(distance, limit) == distance >= TwoMetres

\* f"{filename[:-4]}_segments.shp"
SegmentsName(filename) == [segments_of |-> [filename EXCEPT !.ext = ""], ext |-> ".shp"]

ProxDirNames == {FileName(s, "_lines", ".shp") : s \in Stems}
                  \cup {FileName("a", "_lines", ".dbf")}

\* What the call of process_shapefile for one file saw and did.
ProxCall(filename, exc, n, distance, to_file) ==
  [outcome |-> "iterated", filename |-> filename, exc |-> exc, n |-> n,
   distance |-> distance, to_file |-> to_file]

ProxStart ==
  /\ bank_line_path \in Listings(ProxDirNames, MaxFiles)
  /\ threshold \in Thresholds
  /\ multi_iterable \in BOOLEAN
  /\ px_i = 1
  /\ px_pc = "loop"
  /\ px_distance = 0
  /\ px_k = 0
  /\ px_segments = <<>>
  /\ px_output = {}
  /\ px_last = NoIteration
  /\ px_printed = <<>>

ProxInit == ProxStart /\ Idle("proximity")

ProxAtShapefile ==
  /\ px_pc = "loop" /\ px_i <= Len(bank_line_path)
  /\ EndsWith(bank_line_path[px_i], ".shp")

\* Lines 205-209: the except clause; an exception it does not catch ends the
\* script.
ProxExcept(exc) ==
  IF CaughtByExceptException(exc)
  THEN /\ px_printed' = Append(px_printed, ErrorMessage(exc))
       /\ px_i' = px_i + 1
       /\ px_pc' = "loop"
  ELSE /\ px_pc' = "aborted"
       /\ UNCHANGED <<px_i, px_printed>>

\* Lines 200-201: a directory entry that is not a .shp file.
ProxSkipOther ==
  /\ px_pc = "loop" /\ px_i <= Len(bank_line_path)
  /\ ~EndsWith(bank_line_path[px_i], ".shp")
  /\ px_i' = px_i + 1
  /\ UNCHANGED <<bank_line_path, threshold, multi_iterable, px_pc, px_distance, px_k,
                 px_segments, px_output, px_last, px_printed>>
  /\ UNCHANGED <<alignFnVars, alignBatchVars, interVars, reprojVars, splitVars, rasterVars,
                 cleanVars, tiffVars, tableVars, nearVars>>

\* Lines 127-130: the shapefile cannot be read or does not hold two features.
ProxFail ==
  /\ ProxAtShapefile
  /\ \E read \in ProxReads :
       /\ IF Raised(read) THEN TRUE ELSE Val(read) # 2
       /\ LET exc == IF Raised(read) THEN read.exc ELSE "ValueError"
              n == IF Raised(read) THEN 0 ELSE Val(read)
          IN /\ px_last' = ProxCall(bank_line_path[px_i], exc, n, 0, <<>>)
             /\ ProxExcept(exc)
  /\ UNCHANGED <<bank_line_path, threshold, multi_iterable, px_distance, px_k,
                 px_segments, px_output>>
  /\ UNCHANGED <<alignFnVars, alignBatchVars, interVars, reprojVars, splitVars, rasterVars,
                 cleanVars, tiffVars, tableVars, nearVars>>

\* Lines 137-140: the two lines are at least 2 m apart.
ProxFar ==
  /\ ProxAtShapefile
  /\ \E distance \in Dists :
       /\ TooFarApart(distance, threshold)
       /\ px_last' = ProxCall(bank_line_path[px_i], "None", 2, distance, <<>>)
  /\ px_printed' = Append(px_printed, "greater than or equal to 2 m")
  /\ px_i' = px_i + 1
  /\ UNCHANGED <<bank_line_path, threshold, multi_iterable, px_pc, px_distance, px_k,
                 px_segments, px_output>>
  /\ UNCHANGED <<alignFnVars, alignBatchVars, interVars, reprojVars, splitVars, rasterVars,
                 cleanVars, tiffVars, tableVars, nearVars>>

\* Lines 141-145 and 47-51: the lines are nearer; find_nearby_segments starts.
ProxNear ==
  /\ ProxAtShapefile
  /\ \E distance \in Dists :
       /\ ~TooFarApart(distance, threshold)
       /\ px_distance' = distance
  /\ px_pc' = "sampling"
  /\ px_k' = 1
  /\ px_segments' = <<>>
  /\ UNCHANGED <<bank_line_path, threshold, multi_iterable, px_i, px_output, px_last,
                 px_printed>>
  /\ UNCHANGED <<alignFnVars, alignBatchVars, interVars, reprojVars, splitVars, rasterVars,
                 cleanVars, tiffVars, tableVars, nearVars>>

\* Lines 55-79: one sample point; no sample is nearer to line2 than the
\* minimum distance of the two lines.
ProxSample ==
  /\ px_pc = "sampling" /\ px_k <= MaxSamples
  /\ \E sample \in Samples :
       /\ sample.distance >= px_distance
       /\ LET r == SampleStep(px_segments, px_k, sample, threshold, multi_iterable)
          IN IF Raised(r)
             THEN /\ px_last' = ProxCall(bank_line_path[px_i], r.exc, 2, px_distance, <<>>)
                  /\ ProxExcept(r.exc)
                  /\ px_k' = 0
                  /\ px_segments' = <<>>
                  /\ px_distance' = 0
             ELSE /\ px_segments' = Val(r)
                  /\ px_k' = px_k + 1
                  /\ UNCHANGED <<px_i, px_pc, px_distance, px_last, px_printed>>
  /\ UNCHANGED <<bank_line_path, threshold, multi_iterable, px_output>>
  /\ UNCHANGED <<alignFnVars, alignBatchVars, interVars, reprojVars, splitVars, rasterVars,
                 cleanVars, tiffVars, tableVars, nearVars>>

\* Lines 81 and 147-152: the segments found are saved; the locals of the
\* two calls are gone.
ProxSave ==
  /\ px_pc = "sampling" /\ px_k > 1
  /\ px_last' = ProxCall(bank_line_path[px_i], "None", 2, px_distance,
                         <<[path |-> SegmentsName(bank_line_path[px_i])]>>)
  /\ px_output' = px_output \cup {SegmentsName(bank_line_path[px_i])}
  /\ px_printed' = Append(px_printed, "Line segments saved")
  /\ px_i' = px_i + 1
  /\ px_pc' = "loop"
  /\ px_k' = 0
  /\ px_segments' = <<>>
  /\ px_distance' = 0
  /\ UNCHANGED <<bank_line_path, threshold, multi_iterable>>
  /\ UNCHANGED <<alignFnVars, alignBatchVars, interVars, reprojVars, splitVars, rasterVars,
                 cleanVars, tiffVars, tableVars, nearVars>>

ProxReturn ==
  /\ px_pc = "loop" /\ px_i > Len(bank_line_path)
  /\ px_pc' = "done"
  /\ UNCHANGED <<bank_line_path, threshold, multi_iterable, px_i, px_distance, px_k,
                 px_segments, px_output, px_last, px_printed>>
  /\ UNCHANGED <<alignFnVars, alignBatchVars, interVars, reprojVars, splitVars, rasterVars,
                 cleanVars, tiffVars, tableVars, nearVars>>

ProxNext ==
  \/ ProxSkipOther \/ ProxFail \/ ProxFar \/ ProxNear \/ ProxSample \/ ProxSave
  \/ ProxReturn

SpecProximity == ProxInit /\ [][ProxNext]_vars

\* C8: process_shapefile calls find_nearby_segments and writes the segments
\* file whenever the minimum distance is less than the threshold parameter,
\* and writes nothing when it is not, whatever the threshold.
C8_WritesIffBelowThreshold ==
  (px_last.outcome = "iterated" /\ px_last.exc = "None") =>
    ((px_last.to_file # <<>>) <=> (px_last.distance < threshold))

(* ---------------------------------------------------------------------- *)
(* The two scripts that wrap each file in try / except Exception           *)
(* ---------------------------------------------------------------------- *)
CatchInit == ReprojInit \/ ProxInit
CatchNext == ReprojNext \/ ProxNext
SpecCatchAndContinue == CatchInit /\ [][CatchNext]_vars

NumShp(listing) == Len(SelectSeq(listing, IsShp))
IsErrorMessage(msg) ==
  msg \in {ErrorMessage(e) : e \in {"ValueError", "TypeError", "DriverError"}}

\* C7: in CRS reprojection and in proximity extraction an exception raised
\* for one file is caught and reported, the run never aborts, and it ends
\* only after every listed shapefile has had its iteration.
C7_CaughtAndContinued ==
  /\ rp_pc # "aborted" /\ px_pc # "aborted"
  /\ (rp_last.outcome = "iterated" /\ rp_last.exc # "None")
       => (rp_printed # <<>> /\ IsErrorMessage(rp_printed[Len(rp_printed)]))
  /\ (px_last.outcome = "iterated" /\ px_last.exc # "None")
       => (px_printed # <<>> /\ IsErrorMessage(px_printed[Len(px_printed)]))
  /\ rp_pc = "done" =>
       (rp_i = Len(shapefiles) + 1 /\ Len(rp_printed) = Len(shapefiles))
  /\ px_pc = "done" =>
       (px_i = Len(bank_line_path) + 1 /\ Len(px_printed) = NumShp(bank_line_path))

\* C7 witness: the first shapefile did not hold two features, the ValueError
\* was reported and the second shapefile's segments were saved.
C7_Witness ==
  /\ px_pc = "done"
  /\ Len(px_printed) = 2
  /\ px_printed[1] = ErrorMessage("ValueError")
  /\ px_printed[2] = "Line segments saved"

(* ---------------------------------------------------------------------- *)
(* multilinestring_parts.py                                                *)
(* ---------------------------------------------------------------------- *)
\* A feature of the input table: its GEWAESSER value (a river number) and
\* the number of LineStrings of its MultiLineString; 0 parts stands for a
\* geometry that is not a MultiLineString.
SplitRows == [GEWAESSER : 1..MaxGew, parts : 0..MaxParts]
SplitTables == UNION {[1..n -> SplitRows] : n \in 0..MaxRows}

\* attributes.get('GEWAESSER', f"feature_{i+1}") (line 36)
GewasserValue(row, has_column, i) ==
  IF has_column THEN [attribute |-> "GEWAESSER", n |-> row.GEWAESSER]
  ELSE [attribute |-> "feature", n |-> i + 1]

\* f"{gewasser_value}_line_{i+1}.shp" and f"{gewasser_value}_line_{i+1}_bank.shp"
LineFileName(gewasser_value, i, bank) ==
  [gewasser_value |-> gewasser_value, line |-> i + 1, bank |-> bank]

\* Lines 36-41: the name the part is saved under.
OutputFilename(row, has_column, i, folder) ==
  LET output_filename == LineFileName(GewasserValue(row, has_column, i), i, FALSE)
  IN IF output_filename \in folder
     THEN LineFileName(GewasserValue(row, has_column, i), i, TRUE)
     ELSE output_filename

SplitStart ==
  /\ sp_gdf \in SplitTables
  /\ sp_has_column \in BOOLEAN
  /\ sp_folder = {}
  /\ sp_index = 1
  /\ sp_i = 0
  /\ sp_pc = "loop"
  /\ sp_run = 1
  /\ sp_writes = <<>>

SplitInit == SplitStart /\ Idle("split")

SplitAtRow == sp_pc = "loop" /\ sp_index <= Len(sp_gdf)

\* Lines 64-73: a feature that is not a MultiLineString is skipped.
SplitSkipRow ==
  /\ SplitAtRow
  /\ sp_gdf[sp_index].parts = 0
  /\ sp_index' = sp_index + 1
  /\ UNCHANGED <<sp_gdf, sp_has_column, sp_folder, sp_i, sp_pc, sp_run, sp_writes>>
  /\ UNCHANGED <<alignFnVars, alignBatchVars, interVars, reprojVars, proxVars, rasterVars,
                 cleanVars, tiffVars, tableVars, nearVars>>

\* Lines 27-45: one LineString of the feature is saved.
SplitSavePart ==
  /\ SplitAtRow
  /\ sp_i < sp_gdf[sp_index].parts
  /\ LET output_filename ==
           OutputFilename(sp_gdf[sp_index], sp_has_column, sp_i, sp_folder)
     IN /\ sp_folder' = sp_folder \cup {output_filename}
        /\ sp_writes' = Append(sp_writes, [run |-> sp_run, path |-> output_filename,
                                           linestring |-> <<sp_index, sp_i>>])
  /\ sp_i' = sp_i + 1
  /\ UNCHANGED <<sp_gdf, sp_has_column, sp_index, sp_pc, sp_run>>
  /\ UNCHANGED <<alignFnVars, alignBatchVars, interVars, reprojVars, proxVars, rasterVars,
                 cleanVars, tiffVars, tableVars, nearVars>>

\* Line 27 exhausted: on to the next feature.
SplitNextRow ==
  /\ SplitAtRow
  /\ sp_gdf[sp_index].parts > 0
  /\ sp_i = sp_gdf[sp_index].parts
  /\ sp_index' = sp_index + 1
  /\ sp_i' = 0
  /\ UNCHANGED <<sp_gdf, sp_has_column, sp_folder, sp_pc, sp_run, sp_writes>>
  /\ UNCHANGED <<alignFnVars, alignBatchVars, interVars, reprojVars, proxVars, rasterVars,
                 cleanVars, tiffVars, tableVars, nearVars>>

SplitEnd ==
  /\ sp_pc = "loop" /\ sp_index > Len(sp_gdf)
  /\ sp_pc' = "done"
  /\ UNCHANGED <<sp_gdf, sp_has_column, sp_folder, sp_index, sp_i, sp_run, sp_writes>>
  /\ UNCHANGED <<alignFnVars, alignBatchVars, interVars, reprojVars, proxVars, rasterVars,
                 cleanVars, tiffVars, tableVars, nearVars>>

\* The script is run again on the same table and output folder.
SplitRunAgain ==
  /\ sp_pc = "done" /\ sp_run < MaxRuns
  /\ sp_run' = sp_run + 1
  /\ sp_index' = 1
  /\ sp_i' = 0
  /\ sp_pc' = "loop"
  /\ UNCHANGED <<sp_gdf, sp_has_column, sp_folder, sp_writes>>
  /\ UNCHANGED <<alignFnVars, alignBatchVars, interVars, reprojVars, proxVars, rasterVars,
                 cleanVars, tiffVars, tableVars, nearVars>>

SplitNext ==
  SplitSkipRow \/ SplitSavePart \/ SplitNextRow \/ SplitEnd \/ SplitRunAgain

SpecSplit == SplitInit /\ [][SplitNext]_vars

RECURSIVE TotalParts(_)
TotalParts(gdf) == IF gdf = <<>> THEN 0 ELSE Head(gdf).parts + TotalParts(Tail(gdf))

\* C9: after a run over a table with a GEWAESSER column, the number of
\* distinct files the run wrote equals the number of constituent LineStrings
\* of the table, and no file written for one LineString has been overwritten
\* by the file of another.
C9_OneFilePerLine ==
  (sp_pc = "done" /\ sp_has_column) =>
    /\ Cardinality({w.path : w \in {x \in Range(sp_writes) : x.run = sp_run}})
         = TotalParts(sp_gdf)
    /\ \A j, k \in DOMAIN sp_writes :
         sp_writes[j].path = sp_writes[k].path
           => sp_writes[j].linestring = sp_writes[k].linestring

(* ---------------------------------------------------------------------- *)
(* XYZ_txt_files_to_raster.py                                              *)
(* ---------------------------------------------------------------------- *)
AscDirNames == {FileName(s, "", ".asc") : s \in Stems} \cup {FileName("a", "", ".txt")}

\* f'{os.path.splitext(filename)[0]}_elevation_raster.tif'
RasterName(filename) ==
  [basename |-> [filename EXCEPT !.ext = ""], suffix |-> "_elevation_raster", ext |-> ".tif"]

\* Mutant: the check for an existing raster is missing.
OutputExists_Never(path, folder) == FALSE

\* os.path.exists(output_raster) (line 39)
OutputExists(path, folder) == path \in folder

\* Texts are sequences of characters.  The Easting texts are what
\* astype(str) gives for the values of the column.
Digits == {"0", "1", "2", "3", "4", "5", "6", "7", "8", "9"}
EastingTexts ==
  {<<"3", "2", "5", ".", "0">>,
   <<"3", "2", "0", "5", ".", "0">>,
   <<"5", "5", ".", "0">>,
   <<"n", "a", "n">>}
\* Northing and Elevation after pd.to_numeric(errors='coerce').
NumericCells == {"number", "nan", "inf"}
AscRow(easting, northing, elevation) ==
  [Easting |-> easting, Northing |-> northing, Elevation |-> elevation]
\* Rows with any Easting text and numeric Northing and Elevation, and rows
\* with a prefixed Easting and one other cell that is not a finite number.
AscRows ==
  {AscRow(e, "number", "number") : e \in EastingTexts}
    \cup {AscRow(<<"3", "2", "5", ".", "0">>, c, "number") : c \in NumericCells}
    \cup {AscRow(<<"3", "2", "5", ".", "0">>, "number", c) : c \in NumericCells}
\* pd.read_csv(file_path, ...): the rows of the file, or an error.
AscReads ==
  {Raise("DriverError")} \cup {Return(df) : df \in UNION {[1..n -> AscRows] : n \in 1..MaxAscRows}}

\* str.slice(2)
Slice2(text) == SubSeq(text, 3, Len(text))

\* Whether float(text) accepts the text: digits with at most one point.
IsFloatText(text) ==
  /\ \A k \in DOMAIN text : text[k] \in Digits \cup {"."}
  /\ \E k \in DOMAIN text : text[k] \in Digits
  /\ Cardinality({k \in DOMAIN text : text[k] = "."}) <= 1

\* The float's own text: no leading zeros before the integer part.
RECURSIVE StripZeros(_)
StripZeros(text) ==
  IF Len(text) >= 2 /\ text[1] = "0" /\ text[2] \in Digits
  THEN StripZeros(Tail(text))
  ELSE IF text[1] = "." THEN <<"0">> \o text
  ELSE text

\* float(text)
ParseFloat(text) == IF IsFloatText(text) THEN Return(StripZeros(text)) ELSE Raise("ValueError")

\* Line 52: df['Easting'].astype(str).str.slice(2).astype(float)
CleanEasting(text) == ParseFloat(Slice2(text))

\* Line 59: a row with NaN or infinity in any column is removed.
ValidRow(row) == row.Northing = "number" /\ row.Elevation = "number"

\* Lines 43-86, the try block for one file: the exception it ends with, the
\* rows left after cleaning and whether the raster is written.
RasterizeOne(read) ==
  IF Raised(read) THEN [exc |-> read.exc, rows |-> 0, saved |-> FALSE]
  ELSE LET df == Val(read)
       IN IF \E k \in DOMAIN df : Raised(CleanEasting(df[k].Easting))
          THEN [exc |-> "ValueError", rows |-> 0, saved |-> FALSE]
          ELSE LET cleaned == SelectSeq(df, ValidRow)
               IN [exc |-> "None", rows |-> Len(cleaned), saved |-> cleaned # <<>>]

RasterStart ==
  /\ directory \in Listings(AscDirNames, MaxFiles)
  /\ output_dir \in SUBSET {RasterName(n) : n \in {x \in AscDirNames : EndsWith(x, ".asc")}}
  /\ rs_i = 1
  /\ rs_pc = "loop"
  /\ rs_run = 1
  /\ rs_last = NoIteration
  /\ rs_writes = <<>>

RasterInit == RasterStart /\ Idle("raster")

RasterAtFile == rs_pc = "loop" /\ rs_i <= Len(directory)

\* The rows of the file as read whose three cells are finite numbers.
IsNumberRow(row) ==
  IsFloatText(row.Easting) /\ row.Northing = "number" /\ row.Elevation = "number"
NumberRows(read) == IF Raised(read) THEN 0 ELSE Len(SelectSeq(Val(read), IsNumberRow))

RasterIteration(filename, existed, read, exc, rows, to_raster, number_rows) ==
  [outcome |-> "iterated", run |-> rs_run, filename |-> filename, existed |-> existed,
   read |-> read, exc |-> exc, rows |-> rows, to_raster |-> to_raster,
   number_rows |-> number_rows]

\* Lines 30-31: a directory entry that is not an .asc file.
RasterSkipOther ==
  /\ RasterAtFile
  /\ ~EndsWith(directory[rs_i], ".asc")
  /\ rs_i' = rs_i + 1
  /\ UNCHANGED <<directory, output_dir, rs_pc, rs_run, rs_last, rs_writes>>
  /\ UNCHANGED <<alignFnVars, alignBatchVars, interVars, reprojVars, proxVars, splitVars,
                 cleanVars, tiffVars, tableVars, nearVars>>

\* Lines 36-41: the raster of the file exists already.
RasterSkipExisting ==
  /\ RasterAtFile
  /\ EndsWith(directory[rs_i], ".asc")
  /\ OutputExists(RasterName(directory[rs_i]), output_dir)
  /\ rs_last' = RasterIteration(directory[rs_i], RasterName(directory[rs_i]) \in output_dir,
                                FALSE, "None", 0, <<>>, 0)
  /\ rs_i' = rs_i + 1
  /\ UNCHANGED <<directory, output_dir, rs_pc, rs_run, rs_writes>>
  /\ UNCHANGED <<alignFnVars, alignBatchVars, interVars, reprojVars, proxVars, splitVars,
                 cleanVars, tiffVars, tableVars, nearVars>>

\* Lines 43-86: the file is read, cleaned and rasterized; an exception is
\* printed and the loop goes on.
RasterProcess ==
  /\ RasterAtFile
  /\ EndsWith(directory[rs_i], ".asc")
  /\ ~OutputExists(RasterName(directory[rs_i]), output_dir)
  /\ \E read \in AscReads :
       LET r == RasterizeOne(read)
           output_raster == RasterName(directory[rs_i])
       IN /\ rs_last' = RasterIteration(directory[rs_i], output_raster \in output_dir, TRUE,
                                        r.exc, r.rows,
                                        IF r.saved THEN <<output_raster>> ELSE <<>>,
                                        NumberRows(read))
          /\ output_dir' = IF r.saved THEN output_dir \cup {output_raster} ELSE output_dir
          /\ rs_writes' = IF r.saved
                          THEN Append(rs_writes, [run |-> rs_run, path |-> output_raster])
                          ELSE rs_writes
          /\ IF r.exc = "None" \/ CaughtByExceptException(r.exc)
             THEN rs_i' = rs_i + 1 /\ rs_pc' = rs_pc
             ELSE rs_pc' = "aborted" /\ rs_i' = rs_i
  /\ UNCHANGED <<directory, rs_run>>
  /\ UNCHANGED <<alignFnVars, alignBatchVars, interVars, reprojVars, proxVars, splitVars,
                 cleanVars, tiffVars, tableVars, nearVars>>

RasterEnd ==
  /\ rs_pc = "loop" /\ rs_i > Len(directory)
  /\ rs_pc' = "done"
  /\ UNCHANGED <<directory, output_dir, rs_i, rs_run, rs_last, rs_writes>>
  /\ UNCHANGED <<alignFnVars, alignBatchVars, interVars, reprojVars, proxVars, splitVars,
                 cleanVars, tiffVars, tableVars, nearVars>>

\* The script is run again on the same directories.
RasterRunAgain ==
  /\ rs_pc = "done" /\ rs_run < MaxRuns
  /\ rs_run' = rs_run + 1
  /\ rs_i' = 1
  /\ rs_pc' = "loop"
  /\ UNCHANGED <<directory, output_dir, rs_last, rs_writes>>
  /\ UNCHANGED <<alignFnVars, alignBatchVars, interVars, reprojVars, proxVars, splitVars,
                 cleanVars, tiffVars, tableVars, nearVars>>

RasterNext ==
  RasterSkipOther \/ RasterSkipExisting \/ RasterProcess \/ RasterEnd \/ RasterRunAgain

SpecRaster == RasterInit /\ [][RasterNext]_vars

\* The rasters present when run n ended: those present at the start and
\* those written in the runs up to n.
RastersAfterRun(n) ==
  (output_dir \ {w.path : w \in Range(rs_writes)})
    \cup {w.path : w \in {x \in Range(rs_writes) : x.run <= n}}
EverySucceededInRun(n) ==
  \A k \in DOMAIN directory :
    EndsWith(directory[k], ".asc") => RasterName(directory[k]) \in RastersAfterRun(n)

\* C10: an .asc file whose raster exists is skipped without being read and
\* without the raster being written again; so a run that follows a run in
\* which every file succeeded writes no file.
C10_ExistingRasterSkipped ==
  /\ (rs_last.outcome = "iterated" /\ rs_last.existed)
       => (~rs_last.read /\ rs_last.to_raster = <<>>)
  /\ \A j, k \in DOMAIN rs_writes : rs_writes[j].path = rs_writes[k].path => j = k
  /\ \A n \in 1..MaxRuns :
       (n < rs_run /\ EverySucceededInRun(n))
         => \A w \in Range(rs_writes) : w.run <= n

\* C10 witness: the second run has ended after a first run that wrote two
\* rasters, and its last file was skipped.
C10_Witness ==
  /\ rs_pc = "done" /\ rs_run = 2
  /\ EverySucceededInRun(1)
  /\ Len(rs_writes) = 2
  /\ rs_last.run = 2 /\ rs_last.existed /\ ~rs_last.read

\* C14: of a file that was read, the rows whose Easting, Northing or
\* Elevation is missing, not a number or infinite are removed and the other
\* rows are rasterized; no raster is written only when no such row is left.
C14_InvalidRowsRemovedRestRasterized ==
  (rs_last.outcome = "iterated" /\ rs_last.read /\ rs_last.exc # "DriverError")
    => /\ rs_last.rows = rs_last.number_rows
       /\ rs_last.to_raster = <<>> <=> rs_last.number_rows = 0

\* ---------------------------------------------------------------------
\* XYZ_txt_files_to_raster.py, line 52 on one value of the Easting column
\* ---------------------------------------------------------------------

\* The characters of the Easting texts drawn here.
EastingChars == {"0", "2", "3", "5", "."}
TextsOver(chars, maxLen) == UNION {[1..n -> chars] : n \in 1..maxLen}
\* str(value) of a finite float: an integer part without leading zeros, a
\* point, and a fraction without trailing zeros.
IsFloatRepr(text) ==
  /\ Len(text) >= 3
  /\ text[1] # "." /\ text[Len(text)] # "."
  /\ Cardinality({k \in DOMAIN text : text[k] = "."}) = 1
  /\ text[1] = "0" => text[2] = "."
  /\ text[Len(text)] = "0" => text[Len(text) - 1] = "."
\* astype(str) of the float column that read_csv builds: the texts of finite
\* values, of missing values and of infinite ones.
EastingReprs ==
  {t \in TextsOver(EastingChars, MaxEastingLen) : IsFloatRepr(t)}
    \cup {<<"n", "a", "n">>, <<"i", "n", "f">>}

CleanStart ==
  /\ ce_text \in EastingReprs
  /\ ce_pc = "read"
  /\ ce_result = Raise("NotCalled")

CleanInit == CleanStart /\ Idle("clean")

\* Line 52 for the value: the first two characters are cut off and the rest
\* is converted to a float.
CleanOne ==
  /\ ce_pc = "read"
  /\ ce_result' = CleanEasting(ce_text)
  /\ ce_pc' = "cleaned"
  /\ UNCHANGED ce_text
  /\ UNCHANGED <<alignFnVars, alignBatchVars, interVars, reprojVars, proxVars, splitVars,
                 rasterVars, tiffVars, tableVars, nearVars>>

CleanNext == CleanOne

SpecCleanEasting == CleanInit /\ [][CleanNext]_vars

Utm32 == <<"3", "2">>

\* C11: for every Easting value read (a finite number), the cleaned value is
\* the original without its leading "32": the original's text is "32"
\* followed by the text of the cleaned value (a leading zero that a float
\* does not keep is not counted as a difference).
C11_CleanedIsOriginalWithout32 ==
  (ce_pc = "cleaned" /\ IsFloatRepr(ce_text))
    => /\ ~Raised(ce_result)
       /\ SubSeq(ce_text, 1, 2) = Utm32
       /\ IF Raised(ce_result) THEN FALSE
          ELSE Val(ce_result) = StripZeros(SubSeq(ce_text, 3, Len(ce_text)))

\* ---------------------------------------------------------------------
\* Merge_all_tiff_files_within_a_folder.py
\* ---------------------------------------------------------------------

\* os.path.join(directory_path, 'merged_output.tif')
output_tiff == FileName("merged_output", "", ".tif")
\* What glob('*.tif') can find in the directory: rasters, among them the
\* merged raster of an earlier run.
TiffNames ==
  {FileName(s, "", ".tif") : s \in Stems}
    \cup {FileName("a", "_elevation_raster", ".tif"), output_tiff}

TiffStart ==
  /\ input_tiffs \in Listings(TiffNames, MaxTiffs)
  /\ mt_i = 1
  /\ mt_pc = "opening"
  /\ mt_open = {}
  /\ mt_closed = {}
  /\ mt_written = {}

TiffInit == TiffStart /\ Idle("tiffs")

\* Lines 23-25: the next input is opened and its dataset is kept in
\* src_files_to_mosaic; a file that cannot be opened ends the script.
TiffOpen ==
  /\ mt_pc = "opening" /\ mt_i <= Len(input_tiffs)
  /\ \E opened \in BOOLEAN :
       IF opened
       THEN /\ mt_open' = mt_open \cup {input_tiffs[mt_i]}
            /\ mt_i' = mt_i + 1
            /\ mt_pc' = mt_pc
       ELSE /\ mt_pc' = "aborted"
            /\ UNCHANGED <<mt_open, mt_i>>
  /\ UNCHANGED <<input_tiffs, mt_closed, mt_written>>
  /\ UNCHANGED <<alignFnVars, alignBatchVars, interVars, reprojVars, proxVars, splitVars,
                 rasterVars, cleanVars, tableVars, nearVars>>

\* Lines 28-31: the open datasets are merged; with no input there is nothing
\* to merge and src is unbound, and the script ends with the exception.
TiffMerge ==
  /\ mt_pc = "opening" /\ mt_i > Len(input_tiffs)
  /\ mt_pc' = IF input_tiffs = <<>> THEN "aborted" ELSE "merged"
  /\ UNCHANGED <<input_tiffs, mt_i, mt_open, mt_closed, mt_written>>
  /\ UNCHANGED <<alignFnVars, alignBatchVars, interVars, reprojVars, proxVars, splitVars,
                 rasterVars, cleanVars, tableVars, nearVars>>

\* Lines 34-41: the mosaic is written; the with statement closes the output
\* dataset, and merge_tiffs returns.
TiffWrite ==
  /\ mt_pc = "merged"
  /\ mt_written' = mt_written \cup {output_tiff}
  /\ mt_closed' = mt_closed \cup {[dest |-> output_tiff]}
  /\ mt_pc' = "returned"
  /\ UNCHANGED <<input_tiffs, mt_i, mt_open>>
  /\ UNCHANGED <<alignFnVars, alignBatchVars, interVars, reprojVars, proxVars, splitVars,
                 rasterVars, cleanVars, tableVars, nearVars>>

TiffNext == TiffOpen \/ TiffMerge \/ TiffWrite

SpecMergeTiffs == TiffInit /\ [][TiffNext]_vars

\* C12: during merge_tiffs at most one input raster is open at any time, and
\* no input raster is open when merge_tiffs has returned.
C12_OneInputOpenAtATime ==
  /\ Cardinality(mt_open) <= 1
  /\ mt_pc = "returned" => mt_open = {}

\* ---------------------------------------------------------------------
\* Merge_shapefiles_Visdom.py
\* ---------------------------------------------------------------------

TableDirNames == {FileName(s, "", ".shp") : s \in Stems} \cup {FileName("a", "", ".dbf")}

\* Line 23: the columns that are kept.
KeptColumns == {"GEWAESSER", "GEWAESSERN", "geometry"}
\* The columns of the shapefiles that are read: the kept ones, the kept ones
\* and one more, and a table without GEWAESSERN.
ColumnSets == {KeptColumns, KeptColumns \cup {"OBJECTID"}, {"GEWAESSER", "geometry"}}

\* A row is a function from column names to cell values.  The cells of a
\* drawn row are told apart by their column and by the GEWAESSER value.
ColumnNumber(c) ==
  IF c = "GEWAESSER" THEN 0 ELSE IF c = "GEWAESSERN" THEN 10
  ELSE IF c = "geometry" THEN 20 ELSE 30
TableRow(columns, gew) == [c \in columns |-> gew + ColumnNumber(c)]

\* The index of a table read from a file: 0..n-1
RangeIndex(n) == [k \in 1..n |-> k - 1]

GeoDataFrame(columns, index, rows) == [columns |-> columns, index |-> index, rows |-> rows]

\* gpd.read_file(shapefile) (line 20): a table or an error.
TableReads ==
  {Raise("DriverError")}
    \cup {Return(GeoDataFrame(cols, RangeIndex(Len(gews)),
                              [k \in DOMAIN gews |-> TableRow(cols, gews[k])])) :
            cols \in ColumnSets,
            gews \in UNION {[1..n -> 1..MaxGew] : n \in 0..MaxTableRows}}

\* gdf[['GEWAESSER', 'GEWAESSERN', 'geometry']] (line 23)
SelectColumns(gdf, columns) ==
  IF columns \subseteq gdf.columns
  THEN Return(GeoDataFrame(columns, gdf.index,
                           [k \in DOMAIN gdf.rows |-> [c \in columns |-> gdf.rows[k][c]]]))
  ELSE Raise("KeyError")

\* The rows, and the index labels, of the frames one after the other.
RECURSIVE ConcatRows(_)
ConcatRows(frames) ==
  IF frames = <<>> THEN <<>> ELSE Head(frames).rows \o ConcatRows(Tail(frames))
RECURSIVE ConcatLabels(_)
ConcatLabels(frames) ==
  IF frames = <<>> THEN <<>> ELSE Head(frames).index \o ConcatLabels(Tail(frames))

\* Mutant: the index labels of the inputs are kept.
ConcatIndex_Kept(frames, ignore_index) == ConcatLabels(frames)

\* The index of pd.concat(frames, ignore_index=...)
ConcatIndex(frames, ignore_index) ==
  IF ignore_index THEN RangeIndex(Len(ConcatRows(frames))) ELSE ConcatLabels(frames)

\* pd.concat(gdfs, ignore_index=True) (line 30); it raises when there is
\* nothing to concatenate.
Concat(frames, ignore_index) ==
  IF frames = <<>> THEN Raise("ValueError")
  ELSE Return(GeoDataFrame(UNION {frames[k].columns : k \in DOMAIN frames},
                           ConcatIndex(frames, ignore_index), ConcatRows(frames)))

TableStart ==
  /\ ms_listing \in Listings(TableDirNames, MaxFiles)
  /\ ms_i = 1
  /\ ms_pc = "reading"
  /\ ms_read = <<>>
  /\ gdfs = <<>>
  /\ combined_gdf = <<>>

TableInit == TableStart /\ Idle("tables")

\* Lines 18-26: the next shapefile is read, its three columns are selected
\* and the result is appended to gdfs.  Nothing catches an exception.
TableRead ==
  /\ ms_pc = "reading" /\ ms_i <= Len(ShapefilesOf(ms_listing))
  /\ \E read \in TableReads :
       IF Raised(read)
       THEN /\ ms_pc' = "aborted"
            /\ UNCHANGED <<ms_i, ms_read, gdfs>>
       ELSE LET gdf == SelectColumns(Val(read), KeptColumns)
            IN /\ ms_read' = Append(ms_read, Val(read))
               /\ IF Raised(gdf)
                  THEN /\ ms_pc' = "aborted"
                       /\ UNCHANGED <<ms_i, gdfs>>
                  ELSE /\ gdfs' = Append(gdfs, Val(gdf))
                       /\ ms_i' = ms_i + 1
                       /\ ms_pc' = ms_pc
  /\ UNCHANGED <<ms_listing, combined_gdf>>
  /\ UNCHANGED <<alignFnVars, alignBatchVars, interVars, reprojVars, proxVars, splitVars,
                 rasterVars, cleanVars, tiffVars, nearVars>>

\* Lines 30-33: the frames are concatenated and the result is written.
TableCombine ==
  /\ ms_pc = "reading" /\ ms_i > Len(ShapefilesOf(ms_listing))
  /\ LET combined == Concat(gdfs, TRUE)
     IN IF Raised(combined)
        THEN /\ ms_pc' = "aborted"
             /\ UNCHANGED combined_gdf
        ELSE \E written \in BOOLEAN :
               IF written
               THEN /\ combined_gdf' = <<Val(combined)>>
                    /\ ms_pc' = "saved"
               ELSE /\ ms_pc' = "aborted"
                    /\ UNCHANGED combined_gdf
  /\ UNCHANGED <<ms_listing, ms_i, ms_read, gdfs>>
  /\ UNCHANGED <<alignFnVars, alignBatchVars, interVars, reprojVars, proxVars, splitVars,
                 rasterVars, cleanVars, tiffVars, nearVars>>

TableNext == TableRead \/ TableCombine

SpecMergeShapefiles == TableInit /\ [][TableNext]_vars

\* The number of rows in the shapefiles read before the k-th one.
RECURSIVE RowsBefore(_)
RowsBefore(k) == IF k <= 1 THEN 0 ELSE RowsBefore(k - 1) + Len(ms_read[k - 1].rows)

\* C13: the written table holds every row of every input shapefile, the
\* files in listing order and the rows of a file in their order, each row
\* with exactly the columns GEWAESSER, GEWAESSERN and geometry; the number
\* of rows is the sum of the input row counts and the index is 0..n-1.
C13_OutputIsAllRowsInOrder ==
  combined_gdf # <<>>
    => LET out == combined_gdf[1]
           n == RowsBefore(Len(ms_read) + 1)
       IN /\ Len(ms_read) = Len(ShapefilesOf(ms_listing))
          /\ out.columns = {"GEWAESSER", "GEWAESSERN", "geometry"}
          /\ Len(out.rows) = n
          /\ out.index = [k \in 1..n |-> k - 1]
          /\ \A f \in DOMAIN ms_read : \A j \in DOMAIN ms_read[f].rows :
               /\ DOMAIN out.rows[RowsBefore(f) + j] = {"GEWAESSER", "GEWAESSERN", "geometry"}
               /\ \A c \in {"GEWAESSER", "GEWAESSERN", "geometry"} :
                    out.rows[RowsBefore(f) + j][c] = ms_read[f].rows[j][c]

\* C13 witness: the table written from two shapefiles with rows, one of
\* them with a further column, and with different rows.
C13_Witness ==
  /\ ms_pc = "saved" /\ combined_gdf # <<>>
  /\ Len(ms_read) = 2
  /\ ms_read[1].rows # <<>> /\ Len(ms_read[2].rows) = 2
  /\ "OBJECTID" \in ms_read[1].columns
  /\ ms_read[2].rows[1] # ms_read[2].rows[2]

\* ---------------------------------------------------------------------
\* Minimum_distacne_Bankline.py, find_nearby_segments(line1, line2, threshold)
\* ---------------------------------------------------------------------

\* The call: the lines are given by what the sample points of line1 will
\* find, and segments is the empty list of line 47.
NearStart ==
  /\ fn_threshold \in Thresholds
  /\ fn_iterable \in BOOLEAN
  /\ fn_pc = "sampling"
  /\ fn_k = 1
  /\ fn_distances = <<>>
  /\ fn_segments = <<>>

NearInit == NearStart /\ Idle("nearby")

\* Lines 54-79: the next sample point of line1, its distance to the nearest
\* point of line2 and what the two buffer intersections add to segments.
NearSample ==
  /\ fn_pc = "sampling" /\ fn_k <= MaxSamples
  /\ \E sample \in Samples :
       LET r == SampleStep(fn_segments, fn_k, sample, fn_threshold, fn_iterable)
       IN /\ fn_distances' = Append(fn_distances, sample.distance)
          /\ IF Raised(r)
             THEN /\ fn_pc' = "raised"
                  /\ UNCHANGED <<fn_segments, fn_k>>
             ELSE /\ fn_segments' = Val(r)
                  /\ fn_k' = fn_k + 1
                  /\ fn_pc' = fn_pc
  /\ UNCHANGED <<fn_threshold, fn_iterable>>
  /\ UNCHANGED <<alignFnVars, alignBatchVars, interVars, reprojVars, proxVars, splitVars,
                 rasterVars, cleanVars, tiffVars, tableVars>>

\* Line 81: return segments
NearReturn ==
  /\ fn_pc = "sampling" /\ fn_k > MaxSamples
  /\ fn_pc' = "returned"
  /\ UNCHANGED <<fn_threshold, fn_iterable, fn_k, fn_distances, fn_segments>>
  /\ UNCHANGED <<alignFnVars, alignBatchVars, interVars, reprojVars, proxVars, splitVars,
                 rasterVars, cleanVars, tiffVars, tableVars>>

NearNext == NearSample \/ NearReturn

SpecFindNearbySegments == NearInit /\ [][NearNext]_vars

\* C15: find_nearby_segments adds segments only for sample points whose
\* distance to the nearest point of line2 is strictly less than threshold;
\* when no sample point is strictly below the threshold, samples at exactly
\* the threshold included, the list that is returned is empty.
C15_SegmentsOnlyBelowThreshold ==
  /\ \A s \in DOMAIN fn_segments :
       /\ fn_segments[s].sample \in DOMAIN fn_distances
       /\ fn_distances[fn_segments[s].sample] < fn_threshold
  /\ (fn_pc = "returned" /\ \A k \in DOMAIN fn_distances : fn_distances[k] >= fn_threshold)
       => fn_segments = <<>>

\* C15 witness: the call has returned; one of its sample points lies
\* exactly at the threshold and another one below it, and the segments
\* returned are those of the one below.
C15_Witness ==
  /\ fn_pc = "returned"
  /\ \E j, k \in DOMAIN fn_distances :
       /\ fn_distances[j] = fn_threshold /\ fn_distances[k] < fn_threshold
       /\ fn_segments # <<>>
       /\ \A s \in DOMAIN fn_segments : fn_segments[s].sample = k

====
